---- MODULE Spec2Model ----
(***************************************************************************)
(* A model of sci::SCIServer (LibSCI/Source/SCI/Server/SCIServer.cpp).     *)
(*                                                                         *)
(* Threads of control:                                                     *)
(*   thread 0        the caller of SCIServer::Start (Impl::Connect)        *)
(*   threads 1..N    the detached std::threads running Impl::Proc          *)
(*   the controller  the caller of SCIServer::End (Impl::Disconnect)       *)
(*   the clients     the peers of the transport (environment)              *)
(*                                                                         *)
(* The source takes no lock anywhere.  Every step below is one access to   *)
(* shared state (mSocket, mProcessList, a Process object, a socket).  An   *)
(* operation on the std::vector mProcessList that reads and then writes    *)
(* it (push_back, the find-and-erase loop, the iteration and clear of      *)
(* Disconnect) is two steps: the first reads the vector into the thread's  *)
(* snapshot, the second writes.  When the vector changed in between, the   *)
(* write is a data race, and the result is either the operation applied to *)
(* the vector as it is now or to the stale snapshot (a lost update).       *)
(*                                                                         *)
(* Specifications:                                                         *)
(*   Spec      every operation, every failure, Start and End in any order  *)
(*   SpecA     scenario A (one Start, scripted clients), fair scheduling   *)
(*   SpecW     the worker protocol: frames of every kind and short reads   *)
(*   SpecMany  more clients than MAX_CLIENT_NUM, one after another         *)
(***************************************************************************)
EXTENDS Integers, Sequences, FiniteSets, TLC

\* Bounds of the model.
MaxUnits == 3      \* execution units (Proc threads) ever started
MaxClients == 2    \* client connections ever attempted
MaxStarts == 1     \* calls of Start
MaxEnds == 2       \* calls of End

\* winsock's INVALID_SOCKET, the value of mSocket when no endpoint is held.
INVALID_SOCKET == 0

\* The maximum number of client connections (line 19); Proc, Connect and
\* createNewProcess do not refer to it.
MAX_CLIENT_NUM == 8

MainThread == 0

\* The sys::SCIPacket kinds that Proc's switch names (lines 194, 198), by name.
PacketKinds == {"DISCONNECT", "MESSAGE"}

\* The values of the byte at RAWDATA_HEADER_INDEX of a frame: the two kinds, and
\* "OTHER" for every value that is neither (no case of the switch).
KindBytes == PacketKinds \cup {"OTHER"}

VARIABLES
    mSocket,        \* Impl::mSocket: INVALID_SOCKET or a socket handle
    sockState,      \* the transport's state of each listening-side socket
    mProcessList,   \* Impl::mProcessList: sequence of Process* (addresses)
    pc,             \* position of thread 0 (Connect) and of each unit (Proc)
    proc,           \* Proc's parameter `process` of each unit (an address)
    sockclient,     \* Proc's local `sockclient`: -1 unset, 0 INVALID_SOCKET, else a connection
    newProc,        \* createNewProcess's local `process` of each calling thread
    snap,           \* what each thread read of mProcessList when its operation began
    owner,          \* heap: the unit whose live Process object is at each address (0: none)
    brk,            \* number of heap addresses handed out so far
    nUnits,         \* number of threads started so far
    conn,           \* each client connection: state, listening socket, frame in flight
    startRet,       \* Start: "none", "running", "true", "false" (last return value),
                    \* "threw" (left by an exception), "aborted" (program terminated)
    starts,         \* calls of Start so far
    ctlPc,          \* position of the controller inside Disconnect
    endRet,         \* End: "none", "running", "true", "false" (last return value)
    ends,           \* calls of End so far
    endRec,         \* what the End call in progress has done so far
    uaf,            \* the units that read their Process object after it was deleted
    io              \* what the step just taken did on a unit's sockclient (NoIo: nothing)

vars == <<mSocket, sockState, mProcessList, pc, proc, sockclient,
          newProc, snap, owner, brk, nUnits, conn, startRet, starts,
          ctlPc, endRet, ends, endRec, uaf, io>>

serverVars == <<mSocket, sockState, mProcessList, pc, proc, sockclient,
                newProc, snap, owner, brk, nUnits, conn, uaf>>

\* The units, threads, heap addresses, sockets and client connections of a run
\* are those its initial state provides.
Units == DOMAIN proc
Threads == DOMAIN pc
Addrs == DOMAIN owner
Socks == DOMAIN sockState
Clients == DOMAIN conn

Range(s) == {s[i] : i \in 1..Len(s)}

\* std::vector::erase of the first element equal to p (the loop of Proc).
RECURSIVE RemoveFirst(_, _)
RemoveFirst(s, p) ==
    IF s = <<>> THEN <<>>
    ELSE IF Head(s) = p THEN Tail(s)
    ELSE <<Head(s)>> \o RemoveFirst(Tail(s), p)

NoEndRec == [open |-> FALSE, sock |-> INVALID_SOCKET, sends |-> 0,
             sentOn |-> {}, released |-> {}]

NewConn == [st |-> "idle", lsock |-> INVALID_SOCKET, inbox |-> "NONE",
            short |-> FALSE, phase |-> "new"]

\* No unit made a call on its sockclient in the step just taken.
NoIo == [unit |-> 0, rcv |-> "NONE", short |-> FALSE, calls |-> <<>>]

\* Impl::Impl(): mSocket(INVALID_SOCKET), mProcessList(); a run with room for
\* `units` execution units, `clients` client connections and `socks` sockets.
InitWith(units, clients, socks) ==
    /\ mSocket = INVALID_SOCKET
    /\ sockState = [s \in 1..socks |-> "none"]
    /\ mProcessList = <<>>
    /\ pc = [t \in 0..units |-> IF t = MainThread THEN "idle" ELSE "none"]
    /\ proc = [u \in 1..units |-> 0]
    /\ sockclient = [u \in 1..units |-> -1]
    /\ newProc = [t \in 0..units |-> 0]
    /\ snap = [t \in 0..units |-> <<>>]
    /\ owner = [a \in 1..units |-> 0]
    /\ brk = 0
    /\ nUnits = 0
    /\ conn = [c \in 1..clients |-> NewConn]
    /\ startRet = "none"
    /\ starts = 0
    /\ ctlPc = "idle"
    /\ endRet = "none"
    /\ ends = 0
    /\ endRec = NoEndRec
    /\ uaf = {}
    /\ io = NoIo

Init == InitWith(MaxUnits, MaxClients, MaxStarts)

(***************************************************************************)
(* The heap.  `new Process` returns an address that holds no live object:  *)
(* one handed out before and since deleted, or the next fresh one.         *)
(***************************************************************************)
AllocChoices ==
    {a \in Addrs : a <= brk /\ owner[a] = 0} \cup
    (IF brk + 1 \in Addrs THEN {brk + 1} ELSE {})

\* The owner recorded for a Process object that no pointer refers to any more.
LeakedObject == 0 - 1

\* Whether unit u's Process object has been deleted (its pointer dangles).
Released(u) == proc[u] # 0 /\ owner[proc[u]] # u

(***************************************************************************)
(* Impl::Connect, lines 92-139 (SCIServer::Start).                         *)
(***************************************************************************)
\* line 94: socket() succeeds
StartSocketOk ==
    /\ pc[MainThread] = "idle"
    /\ starts + 1 \in Socks
    /\ starts' = starts + 1
    /\ mSocket' = starts + 1
    /\ sockState' = [sockState EXCEPT ![starts + 1] = "created"]
    /\ pc' = [pc EXCEPT ![MainThread] = "bind"]
    /\ startRet' = "running"
    /\ io' = NoIo
    /\ UNCHANGED <<mProcessList, proc, sockclient, newProc,
                   snap, owner, brk, nUnits, conn, ctlPc, endRet, ends,
                   endRec, uaf>>

\* lines 94-99: socket() fails, mSocket == INVALID_SOCKET, return false
StartSocketFail ==
    /\ pc[MainThread] = "idle"
    /\ starts + 1 \in Socks
    /\ starts' = starts + 1
    /\ mSocket' = INVALID_SOCKET
    /\ startRet' = "false"
    /\ io' = NoIo
    /\ UNCHANGED <<sockState, mProcessList, pc, proc, sockclient, newProc, snap, owner, brk, nUnits, conn, ctlPc,
                   endRet, ends, endRec, uaf>>

\* ConnectFail without lines 112-113 / 123-124: the endpoint is kept.
ConnectFailKeepsSocket ==
    /\ pc' = [pc EXCEPT ![MainThread] = "idle"]
    /\ startRet' = "false"
    /\ io' = NoIo
    /\ UNCHANGED <<mSocket, sockState, mProcessList, proc, sockclient,
                   newProc, snap, owner, brk, nUnits, conn, starts, ctlPc,
                   endRet, ends, endRec, uaf>>

\* lines 108-116 and 119-127: closesocket(mSocket); mSocket = INVALID_SOCKET; return false
ConnectFail ==
    /\ sockState' = [sockState EXCEPT ![mSocket] = "closed"]
    /\ mSocket' = INVALID_SOCKET
    /\ pc' = [pc EXCEPT ![MainThread] = "idle"]
    /\ startRet' = "false"
    /\ io' = NoIo
    /\ UNCHANGED <<mProcessList, proc, sockclient, newProc,
                   snap, owner, brk, nUnits, conn, starts, ctlPc, endRet,
                   ends, endRec, uaf>>

\* line 108: bind() returns 0
StartBindOk ==
    /\ pc[MainThread] = "bind"
    /\ sockState[mSocket] = "created"
    /\ sockState' = [sockState EXCEPT ![mSocket] = "bound"]
    /\ pc' = [pc EXCEPT ![MainThread] = "listen"]
    /\ io' = NoIo
    /\ UNCHANGED <<mSocket, mProcessList, proc, sockclient,
                   newProc, snap, owner, brk, nUnits, conn, startRet, starts,
                   ctlPc, endRet, ends, endRec, uaf>>

\* lines 108-116: bind() fails (address in use, or the socket was closed meanwhile)
StartBindFail ==
    /\ pc[MainThread] = "bind"
    /\ ConnectFail

\* line 119: listen() returns 0
StartListenOk ==
    /\ pc[MainThread] = "listen"
    /\ sockState[mSocket] = "bound"
    /\ sockState' = [sockState EXCEPT ![mSocket] = "listening"]
    /\ pc' = [pc EXCEPT ![MainThread] = "spawn"]
    /\ io' = NoIo
    /\ UNCHANGED <<mSocket, mProcessList, proc, sockclient,
                   newProc, snap, owner, brk, nUnits, conn, startRet, starts,
                   ctlPc, endRet, ends, endRec, uaf>>

\* lines 119-127: listen() fails
StartListenFail ==
    /\ pc[MainThread] = "listen"
    /\ ConnectFail

(***************************************************************************)
(* Impl::createNewProcess, lines 72-90, called by Connect (line 130) and   *)
(* by Proc (line 178).  The std::thread of line 75 runs Proc from its      *)
(* construction on, before the push_back of line 87.  A constructed        *)
(* std::thread is joinable, so the branch of lines 78-83 is not taken.     *)
(***************************************************************************)
\* lines 74-76 and 85: new Process, new std::thread (the unit starts), SetThread, detach
CreateThread(t) ==
    /\ pc[t] = "spawn"
    /\ nUnits + 1 \in Units
    /\ \E a \in AllocChoices :
         /\ owner' = [owner EXCEPT ![a] = nUnits + 1]
         /\ proc' = [proc EXCEPT ![nUnits + 1] = a]
         /\ newProc' = [newProc EXCEPT ![t] = a]
         /\ brk' = IF a > brk THEN a ELSE brk
    /\ nUnits' = nUnits + 1
    /\ pc' = [pc EXCEPT ![t] = "push", ![nUnits + 1] = "accept"]
    /\ io' = NoIo
    /\ UNCHANGED <<mSocket, sockState, mProcessList, sockclient, snap, conn, startRet, starts, ctlPc, endRet, ends,
                   endRec, uaf>>

\* lines 74-75: new Process, then the std::thread constructor cannot start a
\* thread and throws std::system_error (it never yields a thread that is not
\* joinable, so lines 78-83 do not handle this).  Nothing catches it: the
\* Process of line 74 is leaked; thrown inside Connect (line 130) the exception
\* leaves Connect and SCIServer::Start (lines 235-238); thrown inside Proc
\* (line 178) it leaves the thread function and std::terminate ends the program,
\* every thread with it, the transport resetting its sockets.
CreateThreadFails(t) ==
    /\ pc[t] = "spawn"
    /\ \E a \in AllocChoices :
         /\ owner' = [owner EXCEPT ![a] = LeakedObject]
         /\ brk' = IF a > brk THEN a ELSE brk
    /\ IF t = MainThread
       THEN /\ pc' = [pc EXCEPT ![t] = "idle"]
            /\ startRet' = "threw"
            /\ UNCHANGED <<sockState, conn, ctlPc, endRet>>
       ELSE /\ pc' = [x \in Threads |-> "aborted"]
            /\ ctlPc' = "aborted"
            /\ startRet' = (IF startRet = "running" THEN "aborted" ELSE startRet)
            /\ endRet' = (IF endRet = "running" THEN "aborted" ELSE endRet)
            /\ sockState' = [x \in Socks |->
                               IF sockState[x] = "none" THEN "none" ELSE "closed"]
            /\ conn' = [c \in Clients |->
                          IF conn[c].st \in {"pending", "accepted"}
                          THEN [conn[c] EXCEPT !.st = "reset", !.inbox = "NONE",
                                               !.short = FALSE]
                          ELSE conn[c]]
    /\ io' = NoIo
    /\ UNCHANGED <<mSocket, mProcessList, proc, sockclient, newProc, snap,
                   nUnits, starts, ends, endRec, uaf>>

\* line 87, push_back: read the vector's end
PushEnter(t) ==
    /\ pc[t] = "push"
    /\ snap' = [snap EXCEPT ![t] = mProcessList]
    /\ pc' = [pc EXCEPT ![t] = "pushx"]
    /\ io' = NoIo
    /\ UNCHANGED <<mSocket, sockState, mProcessList, proc, sockclient, newProc, owner, brk, nUnits, conn,
                   startRet, starts, ctlPc, endRet, ends, endRec, uaf>>

\* line 87, push_back: store the element and the new end; lines 89, 131 / 179
PushExit(t) ==
    /\ pc[t] = "pushx"
    /\ mProcessList' \in {Append(mProcessList, newProc[t]),
                          Append(snap[t], newProc[t])}
    /\ snap' = [snap EXCEPT ![t] = <<>>]
    /\ newProc' = [newProc EXCEPT ![t] = 0]
    /\ pc' = [pc EXCEPT ![t] = IF t = MainThread THEN "poll" ELSE "loop"]
    /\ io' = NoIo
    /\ UNCHANGED <<mSocket, sockState, proc, sockclient,
                   owner, brk, nUnits, conn, startRet, starts, ctlPc, endRet,
                   ends, endRec, uaf>>

\* StartPoll without the test of line 133: Connect returns at once.
StartPollNoWait ==
    /\ pc[MainThread] = "poll"
    /\ pc' = [pc EXCEPT ![MainThread] = "idle"]
    /\ startRet' = "true"
    /\ io' = NoIo
    /\ UNCHANGED <<mSocket, sockState, mProcessList, proc, sockclient,
                   newProc, snap, owner, brk, nUnits, conn, starts, ctlPc,
                   endRet, ends, endRec, uaf>>

\* lines 133-138: while (!mProcessList.empty()) sleep; return true
StartPoll ==
    /\ pc[MainThread] = "poll"
    /\ IF mProcessList = <<>>
       THEN /\ pc' = [pc EXCEPT ![MainThread] = "idle"]
            /\ startRet' = "true"
       ELSE UNCHANGED <<pc, startRet>>
    /\ io' = NoIo
    /\ UNCHANGED <<mSocket, sockState, mProcessList, proc, sockclient,
                   newProc, snap, owner, brk, nUnits, conn, starts, ctlPc,
                   endRet, ends, endRec, uaf>>

(***************************************************************************)
(* Impl::Proc, lines 164-220: one execution unit.  A step of a unit ends   *)
(* at its next access to mProcessList, to the listening socket or to the   *)
(* heap; what it does to its own connection and locals in between is part  *)
(* of the step.                                                            *)
(***************************************************************************)
\* The connections queued on listening socket s.
Pending(s) == {c \in Clients : conn[c].st = "pending" /\ conn[c].lsock = s}

Listening(s) == s # INVALID_SOCKET /\ sockState[s] = "listening"

\* AcceptOk leaving the connection in the listening socket's queue.
AcceptOkKeepsPending(u) ==
    /\ pc[u] = "accept"
    /\ Listening(mSocket)
    /\ \E c \in Pending(mSocket) :
         sockclient' = [sockclient EXCEPT ![u] = c]
    /\ pc' = [pc EXCEPT ![u] = "spawn"]
    /\ io' = NoIo
    /\ UNCHANGED <<mSocket, sockState, mProcessList, proc, newProc, snap,
                   owner, brk, nUnits, conn, startRet, starts, ctlPc, endRet,
                   ends, endRec, uaf>>

\* line 171: accept(mSocket, ...) returns a connection
AcceptOk(u) ==
    /\ pc[u] = "accept"
    /\ Listening(mSocket)
    /\ \E c \in Pending(mSocket) :
         /\ conn' = [conn EXCEPT ![c].st = "accepted"]
         /\ sockclient' = [sockclient EXCEPT ![u] = c]
    /\ pc' = [pc EXCEPT ![u] = "spawn"]
    /\ io' = NoIo
    /\ UNCHANGED <<mSocket, sockState, mProcessList, proc, newProc, snap,
                   owner, brk, nUnits, startRet, starts, ctlPc, endRet, ends,
                   endRec, uaf>>

\* line 171: accept fails (mSocket is invalid, not listening, or was closed);
\* its result INVALID_SOCKET is not tested: lines 173-178 follow all the same
AcceptFail(u) ==
    /\ pc[u] = "accept"
    /\ ~Listening(mSocket)
    /\ sockclient' = [sockclient EXCEPT ![u] = INVALID_SOCKET]
    /\ pc' = [pc EXCEPT ![u] = "spawn"]
    /\ io' = NoIo
    /\ UNCHANGED <<mSocket, sockState, mProcessList, proc, newProc, snap,
                   owner, brk, nUnits, conn, startRet, starts, ctlPc, endRet,
                   ends, endRec, uaf>>

\* Whether recv on unit u's sockclient has a frame to return.
HasData(u) ==
    /\ sockclient[u] \in Clients
    /\ conn[sockclient[u]].st = "accepted"
    /\ conn[sockclient[u]].inbox # "NONE"

\* Dispatch without the echo of line 200.
DispatchNoEcho(kind) ==
    CASE kind = "DISCONNECT" -> <<"close">>
      [] kind = "MESSAGE" -> <<"log">>
      [] OTHER -> <<>>

\* The calls of one loop iteration on sockclient after the probe and the recv
\* of lines 185-186, by the byte at RAWDATA_HEADER_INDEX of the buffer (the
\* switch of lines 192-202); after `connected = false` the loop ends and line
\* 208 closes sockclient
Dispatch(kind) ==
    CASE kind = "DISCONNECT" -> <<"close">>
      [] kind = "MESSAGE" -> <<"log", "send_DISCONNECT">>
      [] OTHER -> <<>>

\* Iterate with a `default:` in the switch that ends the loop as DISCONNECT does.
IterateClosesOnUnknown(u) ==
    /\ pc[u] = "loop"
    /\ HasData(u)
    /\ LET c == sockclient[u]
           kind == conn[c].inbox
           connected == kind = "MESSAGE"
       IN /\ conn' = [conn EXCEPT ![c].inbox = "NONE",
                                  ![c].short = FALSE,
                                  ![c].st = IF connected THEN "accepted" ELSE "closed"]
          /\ pc' = [pc EXCEPT ![u] = IF connected THEN "loop" ELSE "erase"]
          /\ io' = [unit |-> u, rcv |-> kind, short |-> conn[c].short,
                    calls |-> <<"send_DISCONNECT", "recv">>
                                \o (IF connected THEN Dispatch(kind) ELSE <<"close">>)]
    /\ uaf' = (IF Released(u) THEN uaf \cup {u} ELSE uaf)
    /\ UNCHANGED <<mSocket, sockState, mProcessList, proc, sockclient,
                   newProc, snap, owner, brk, nUnits, startRet, starts, ctlPc,
                   endRet, ends, endRec>>

\* lines 182-206, one iteration in which recv returns > 0: the probe is sent
\* (185), the bytes are received (186; their number is tested against 0 only)
\* and the kind byte switched on (192-202), line 205 reads
\* process->GetIntervalTime() and sleeps; on DISCONNECT the loop ends (195,
\* 182) and line 208 closes sockclient
Iterate(u) ==
    /\ pc[u] = "loop"
    /\ HasData(u)
    /\ LET c == sockclient[u]
           kind == conn[c].inbox
           connected == kind # "DISCONNECT"
       IN /\ conn' = [conn EXCEPT ![c].inbox = "NONE",
                                  ![c].short = FALSE,
                                  ![c].st = IF connected THEN "accepted" ELSE "closed"]
          /\ pc' = [pc EXCEPT ![u] = IF connected THEN "loop" ELSE "erase"]
          /\ io' = [unit |-> u, rcv |-> kind, short |-> conn[c].short,
                    calls |-> <<"send_DISCONNECT", "recv">> \o Dispatch(kind)]
    /\ uaf' = (IF Released(u) THEN uaf \cup {u} ELSE uaf)
    /\ UNCHANGED <<mSocket, sockState, mProcessList, proc, sockclient,
                   newProc, snap, owner, brk, nUnits, startRet, starts, ctlPc,
                   endRet, ends, endRec>>

\* lines 182-206, one iteration in which recv returns <= 0 (no data, the peer
\* is gone, sockclient is INVALID_SOCKET): the probe is sent, line 205 reads
\* process->GetIntervalTime() and sleeps, and the loop goes on
IterateIdle(u) ==
    /\ pc[u] = "loop"
    /\ ~HasData(u)
    /\ io' = [unit |-> u, rcv |-> "NONE", short |-> FALSE,
              calls |-> <<"send_DISCONNECT", "recv">>]
    /\ uaf' = (IF Released(u) THEN uaf \cup {u} ELSE uaf)
    /\ UNCHANGED <<mSocket, sockState, mProcessList, pc, proc, sockclient,
                   newProc, snap, owner, brk, nUnits, conn, startRet, starts,
                   ctlPc, endRet, ends, endRec>>

\* lines 210-213: the scan of mProcessList for `process`
EraseEnter(u) ==
    /\ pc[u] = "erase"
    /\ snap' = [snap EXCEPT ![u] = mProcessList]
    /\ pc' = [pc EXCEPT ![u] = "erasex"]
    /\ io' = NoIo
    /\ UNCHANGED <<mSocket, sockState, mProcessList, proc, sockclient,
                   newProc, owner, brk, nUnits, conn, startRet, starts, ctlPc,
                   endRet, ends, endRec, uaf>>

\* lines 212-219: erase the element found, if any; the unit returns
EraseExit(u) ==
    /\ pc[u] = "erasex"
    /\ IF proc[u] \in Range(snap[u])
       THEN mProcessList' \in {RemoveFirst(mProcessList, proc[u]),
                               RemoveFirst(snap[u], proc[u])}
       ELSE UNCHANGED mProcessList
    /\ snap' = [snap EXCEPT ![u] = <<>>]
    /\ pc' = [pc EXCEPT ![u] = "done"]
    /\ io' = NoIo
    /\ UNCHANGED <<mSocket, sockState, proc, sockclient, newProc, owner, brk,
                   nUnits, conn, startRet, starts, ctlPc, endRet, ends, endRec, uaf>>

(***************************************************************************)
(* Impl::Disconnect, lines 141-162 (SCIServer::End, Impl::~Impl).          *)
(***************************************************************************)
\* EndInvalid returning true instead of false at line 145.
EndInvalidReturnsTrue ==
    /\ ctlPc = "idle"
    /\ ends < MaxEnds
    /\ mSocket = INVALID_SOCKET
    /\ ends' = ends + 1
    /\ endRet' = "true"
    /\ io' = NoIo
    /\ UNCHANGED <<serverVars, startRet, starts, ctlPc, endRec>>

\* lines 143-146: mSocket == INVALID_SOCKET, return false
EndInvalid ==
    /\ ctlPc = "idle"
    /\ ends < MaxEnds
    /\ mSocket = INVALID_SOCKET
    /\ ends' = ends + 1
    /\ endRet' = "false"
    /\ io' = NoIo
    /\ UNCHANGED <<serverVars, startRet, starts, ctlPc, endRec>>

\* lines 147-151: send(&mSocket, DISCONNECT); closesocket(mSocket)
EndClose ==
    /\ ctlPc = "idle"
    /\ ends < MaxEnds
    /\ mSocket # INVALID_SOCKET
    /\ ends' = ends + 1
    /\ endRet' = "running"
    /\ endRec' = [open |-> Listening(mSocket), sock |-> mSocket, sends |-> 1,
                  sentOn |-> {<<"listen", mSocket>>}, released |-> {}]
    /\ sockState' = [sockState EXCEPT ![mSocket] = "closed"]
    /\ ctlPc' = "release"
    /\ io' = NoIo
    /\ UNCHANGED <<mSocket, mProcessList, pc, proc, sockclient, newProc, snap,
                   owner, brk, nUnits, conn, startRet, starts, uaf>>

\* EndRelease deleting only the first Process of mProcessList.
EndReleaseFirstOnly ==
    /\ ctlPc = "release"
    /\ LET first == IF mProcessList = <<>> THEN {} ELSE {Head(mProcessList)}
       IN /\ endRec' = [endRec EXCEPT !.released = first]
          /\ owner' = [a \in Addrs |-> IF a \in first THEN 0 ELSE owner[a]]
    /\ ctlPc' = "clear"
    /\ io' = NoIo
    /\ UNCHANGED <<mSocket, sockState, mProcessList, pc, proc, sockclient,
                   newProc, snap, brk, nUnits, conn, startRet, starts, endRet,
                   ends, uaf>>

\* lines 153-158: for each process in mProcessList: delete thread; delete process
EndRelease ==
    /\ ctlPc = "release"
    /\ endRec' = [endRec EXCEPT !.released = Range(mProcessList)]
    /\ owner' = [a \in Addrs |->
                   IF a \in Range(mProcessList) THEN 0 ELSE owner[a]]
    /\ ctlPc' = "clear"
    /\ io' = NoIo
    /\ UNCHANGED <<mSocket, sockState, mProcessList, pc, proc, sockclient,
                   newProc, snap, brk, nUnits, conn, startRet, starts, endRet,
                   ends, uaf>>

\* lines 159-161: mProcessList.clear(); return true
EndClear ==
    /\ ctlPc = "clear"
    /\ mProcessList' = <<>>
    /\ ctlPc' = "idle"
    /\ endRet' = "true"
    /\ endRec' = NoEndRec
    /\ io' = NoIo
    /\ UNCHANGED <<mSocket, sockState, pc, proc, sockclient, newProc, snap,
                   owner, brk, nUnits, conn, startRet, starts, ends, uaf>>

(***************************************************************************)
(* The peers: what accept (line 171) and recv (line 186) are given.        *)
(***************************************************************************)
\* A client connects to a listening socket whose backlog (1, line 118) is free.
ClientConnect(c) ==
    /\ conn[c].st = "idle"
    /\ \A d \in Clients : d < c => conn[d].st # "idle"
    /\ \E s \in Socks :
         /\ Listening(s)
         /\ Pending(s) = {}
         /\ conn' = [conn EXCEPT ![c].st = "pending", ![c].lsock = s]
    /\ io' = NoIo
    /\ UNCHANGED <<mSocket, sockState, mProcessList, pc, proc, sockclient,
                   newProc, snap, owner, brk, nUnits, startRet, starts, ctlPc,
                   endRet, ends, endRec, uaf>>

\* A client whose connection was accepted sends one whole frame whose kind byte
\* is k; after a DISCONNECT frame it sends nothing more.
ClientSend(c, k) ==
    /\ conn[c].st = "accepted"
    /\ conn[c].inbox = "NONE"
    /\ conn[c].phase # "bye"
    /\ conn' = [conn EXCEPT ![c].inbox = k,
                            ![c].phase = IF k = "DISCONNECT" THEN "bye" ELSE @]
    /\ io' = NoIo
    /\ UNCHANGED <<mSocket, sockState, mProcessList, pc, proc, sockclient,
                   newProc, snap, owner, brk, nUnits, startRet, starts, ctlPc,
                   endRet, ends, endRec, uaf>>

\* A client sends fewer bytes than sizeof(RawData), the kind byte k among them:
\* the recv of line 186 returns their number, which is > 0.
ClientSendShort(c, k) ==
    /\ conn[c].st = "accepted"
    /\ conn[c].inbox = "NONE"
    /\ conn[c].phase # "bye"
    /\ conn' = [conn EXCEPT ![c].inbox = k, ![c].short = TRUE,
                            ![c].phase = IF k = "DISCONNECT" THEN "bye" ELSE @]
    /\ io' = NoIo
    /\ UNCHANGED <<mSocket, sockState, mProcessList, pc, proc, sockclient,
                   newProc, snap, owner, brk, nUnits, startRet, starts, ctlPc,
                   endRet, ends, endRec, uaf>>

Spawn == \E t \in Threads : CreateThread(t)
SpawnFails == \E t \in Threads : CreateThreadFails(t)
PushBegin == \E t \in Threads : PushEnter(t)
PushEnd == \E t \in Threads : PushExit(t)
ProcAcceptOk == \E u \in Units : AcceptOk(u)
ProcAcceptFail == \E u \in Units : AcceptFail(u)
ProcIterate == \E u \in Units : Iterate(u)
ProcIterateIdle == \E u \in Units : IterateIdle(u)
ProcEraseBegin == \E u \in Units : EraseEnter(u)
ProcEraseEnd == \E u \in Units : EraseExit(u)
Connects == \E c \in Clients : ClientConnect(c)
Sends == \E c \in Clients, k \in PacketKinds : ClientSend(c, k)
SendsWhole == \E c \in Clients, k \in KindBytes : ClientSend(c, k)
SendsShort == \E c \in Clients, k \in KindBytes : ClientSendShort(c, k)

Next ==
    \/ StartSocketOk
    \/ StartSocketFail
    \/ StartBindOk
    \/ StartBindFail
    \/ StartListenOk
    \/ StartListenFail
    \/ Spawn
    \/ SpawnFails
    \/ PushBegin
    \/ PushEnd
    \/ StartPoll
    \/ ProcAcceptOk
    \/ ProcAcceptFail
    \/ ProcIterate
    \/ ProcIterateIdle
    \/ ProcEraseBegin
    \/ ProcEraseEnd
    \/ EndInvalid
    \/ EndClose
    \/ EndRelease
    \/ EndClear
    \/ Connects
    \/ Sends

Spec == Init /\ [][Next]_vars

(***************************************************************************)
(* The claims.                                                             *)
(***************************************************************************)

\* C1: Start returns true only in a step that finds mProcessList empty, and
\* only from its wait loop (after bind and listen succeeded): at the instant
\* it returns the registry holds no handle.
C1_StartReturnsOnlyOnEmptyRegistry ==
    [][(startRet' = "true" /\ startRet # "true")
         => /\ startRet = "running"
            /\ pc[MainThread] = "poll"
            /\ mProcessList = <<>>
            /\ mProcessList' = <<>>]_vars

\* Start has returned true, with units having been started.
C1_Witness == startRet = "true" /\ nUnits > 0 /\ pc[MainThread] = "idle"

\* C2: when socket(), bind() or listen() fails, Start returns false in that
\* step, holds no endpoint (mSocket is INVALID_SOCKET and the socket the call
\* created is not open), starts no unit and leaves the registry as it is; a
\* first Start that failed leaves no unit and an empty registry.
C2_FailedStartLeavesNothing ==
    /\ [][(startRet' = "false" /\ startRet # "false")
            => /\ pc'[MainThread] = "idle"
               /\ mSocket' = INVALID_SOCKET
               /\ sockState'[starts'] \in {"none", "closed"}
               /\ nUnits' = nUnits
               /\ mProcessList' = mProcessList
               /\ \A u \in Units : pc'[u] = pc[u]]_vars
    /\ []((startRet = "false" /\ starts = 1)
            => /\ mSocket = INVALID_SOCKET
               /\ sockState[1] \in {"none", "closed"}
               /\ nUnits = 0
               /\ mProcessList = <<>>)

\* Start returned false after bind or listen failed on the socket it created.
C2_Witness == startRet = "false" /\ starts = 1 /\ sockState[1] = "closed"

\* C4: End called before any Start or after a Start that failed returns false
\* and changes nothing: no send, no close, the registry and every handle as
\* they were.
C4_EndWithoutEndpointIsNoOp ==
    [][(ends' = ends + 1 /\ startRet \in {"none", "false"})
         => /\ endRet' = "false"
            /\ ctlPc' = "idle"
            /\ endRec' = NoEndRec
            /\ UNCHANGED serverVars]_vars

\* End returned false after a Start that failed.
C4_Witness == endRet = "false" /\ startRet = "false" /\ ends > 0

ScenarioStart == starts = 0 /\ StartSocketOk

ScenarioConnect == \E c \in Clients : ClientConnect(c)

\* The client sends MESSAGE first, DISCONNECT second, nothing after.
ScriptedSend(c) ==
    /\ conn[c].st = "accepted"
    /\ conn[c].inbox = "NONE"
    /\ conn[c].phase \in {"new", "msg"}
    /\ conn' = [conn EXCEPT
                 ![c].inbox = IF conn[c].phase = "new" THEN "MESSAGE"
                              ELSE "DISCONNECT",
                 ![c].phase = IF conn[c].phase = "new" THEN "msg" ELSE "bye"]
    /\ io' = NoIo
    /\ UNCHANGED <<mSocket, sockState, mProcessList, pc, proc, sockclient,
                   newProc, snap, owner, brk, nUnits, startRet, starts, ctlPc,
                   endRet, ends, endRec, uaf>>

ScenarioScript == \E c \in Clients : ScriptedSend(c)

NextA ==
    \/ ScenarioStart
    \/ StartBindOk
    \/ StartListenOk
    \/ Spawn
    \/ PushBegin
    \/ PushEnd
    \/ StartPoll
    \/ ProcAcceptOk
    \/ ProcIterate
    \/ ProcIterateIdle
    \/ ProcEraseBegin
    \/ ProcEraseEnd
    \/ ScenarioConnect
    \/ ScenarioScript

FairA ==
    /\ WF_vars(ScenarioStart)
    /\ WF_vars(StartBindOk)
    /\ WF_vars(StartListenOk)
    /\ WF_vars(StartPoll)
    /\ \A t \in 0..MaxUnits :
         WF_vars(CreateThread(t) \/ PushEnter(t) \/ PushExit(t))
    /\ \A u \in 1..MaxUnits :
         WF_vars(AcceptOk(u) \/ Iterate(u) \/ EraseEnter(u) \/ EraseExit(u))
    /\ WF_vars(ClientConnect(1))
    /\ \A c \in 1..MaxClients : WF_vars(ScriptedSend(c))

SpecA == Init /\ [][NextA]_vars /\ FairA

\* C3: in a run of scenario A with a single client (no other client ever
\* connects), once the client has disconnected (the worker closed the
\* connection) the registry eventually holds 0 entries and the blocked Start
\* has returned.
C3_RegistryReturnsToZero ==
    [](\A c \in Clients : c # 1 => conn[c].st = "idle")
      => ((conn[1].st = "closed") ~> (mProcessList = <<>> /\ startRet = "true"))

\* The units inside an operation on mProcessList, and the controller if it is.
RegistryOpsInProgress ==
    Cardinality({t \in Threads : pc[t] \in {"pushx", "erasex"}})
      + (IF ctlPc = "clear" THEN 1 ELSE 0)

\* The units that have started and not returned from Proc.
LiveUnits == {u \in Units : pc[u] \notin {"none", "done"}}

\* C6: no worker serving a connection reads its Process object (its polling
\* interval, line 205) after End has deleted it.
C6_NoUseAfterRelease == \A u \in uaf : sockclient[u] \notin Clients

\* C7: at no instant are two threads inside an operation on the registry
\* (push_back of createNewProcess, find-and-erase of Proc, iteration and clear
\* of Disconnect).
C7_RegistryMutualExclusion == RegistryOpsInProgress <= 1

\* C8: a unit whose accept failed because the listening endpoint was closed
\* has started no further unit (it is not inside createNewProcess's push_back
\* nor past it) and is not in the send/receive loop.
C8_AcceptFailureEndsChain ==
    \A u \in Units :
       sockclient[u] = INVALID_SOCKET
         => pc[u] \notin {"push", "pushx", "loop", "erase", "erasex"}

\* C9: the registry holds at most as many entries as there are live units, and
\* no entry that is the handle of a unit that has terminated.
C9_RegistryWithinLiveUnits ==
    /\ Len(mProcessList) <= Cardinality(LiveUnits)
    /\ \A u \in Units :
         (pc[u] = "done" /\ ~Released(u)) => proc[u] \notin Range(mProcessList)

\* C10: every connection is held by at most one unit, and an accepted one by
\* exactly one, the unit that accepted it; a unit's connection never changes
\* once accept has returned, so a unit serves at most one connection; two
\* units holding different connections have different Process objects.
C10_OneUnitPerConnection ==
    /\ [](\A c \in Clients :
            /\ Cardinality({u \in Units : sockclient[u] = c}) <= 1
            /\ conn[c].st \in {"accepted", "closed"}
                 => Cardinality({u \in Units : sockclient[u] = c}) = 1)
    /\ [](\A u \in Units :
            /\ pc[u] \in {"none", "accept"} => sockclient[u] = -1
            /\ pc[u] \in {"loop", "erase", "erasex", "done"} => sockclient[u] # -1)
    /\ [][\A u \in Units :
            sockclient[u] # -1 => sockclient'[u] = sockclient[u]]_vars
    /\ [](\A u, v \in Units :
            (u # v /\ sockclient[u] \in Clients /\ sockclient[v] \in Clients
                   /\ ~Released(u) /\ ~Released(v))
              => proc[u] # proc[v])

\* Two sequential clients: the first was served and disconnected, the second
\* is being served by another unit.
C10_Witness ==
    \E u, v \in Units :
       /\ u # v
       /\ sockclient[u] = 1 /\ conn[1].st = "closed" /\ pc[u] = "done"
       /\ sockclient[v] = 2 /\ conn[2].st = "accepted" /\ pc[v] = "loop"

(***************************************************************************)
(* The worker protocol: Start succeeds and no End is called; the clients   *)
(* send whole frames of any kind and short reads, in any order.            *)
(***************************************************************************)
NextW ==
    \/ ScenarioStart
    \/ StartBindOk
    \/ StartListenOk
    \/ Spawn
    \/ PushBegin
    \/ PushEnd
    \/ StartPoll
    \/ ProcAcceptOk
    \/ ProcIterate
    \/ ProcIterateIdle
    \/ ProcEraseBegin
    \/ ProcEraseEnd
    \/ Connects
    \/ SendsWhole
    \/ SendsShort

SpecW == Init /\ [][NextW]_vars

\* The number of frames a sequence of calls sends.
RECURSIVE SendCount(_)
SendCount(calls) ==
    IF calls = <<>> THEN 0
    ELSE (IF Head(calls) = "send_DISCONNECT" THEN 1 ELSE 0) + SendCount(Tail(calls))

\* C11: a unit leaves its send/receive loop only in an iteration whose recv
\* returned data with the kind byte DISCONNECT, and then it goes on to close;
\* an iteration whose recv returned nothing, or a MESSAGE or unknown-kind
\* frame, leaves the unit in the loop, the registry as it is, the connection
\* open and not closed by the unit.
C11_ClosedOnlyOnDisconnect ==
    [][\A u \in Units :
         /\ (pc[u] = "loop" /\ pc'[u] # "loop")
              => /\ HasData(u)
                 /\ conn[sockclient[u]].inbox = "DISCONNECT"
                 /\ io'.unit = u /\ io'.rcv = "DISCONNECT"
                 /\ pc'[u] = "erase"
         /\ (io'.unit = u /\ io'.rcv # "DISCONNECT")
              => /\ pc[u] = "loop" /\ pc'[u] = "loop"
                 /\ mProcessList' = mProcessList
                 /\ sockclient' = sockclient
                 /\ \A c \in Clients : conn'[c].st = conn[c].st
                 /\ "close" \notin Range(io'.calls)]_vars

\* A worker stayed in its loop over an unknown-kind frame while another unit
\* has left its loop on a DISCONNECT frame.
C11_Witness ==
    /\ io.unit \in Units /\ io.rcv = "OTHER" /\ pc[io.unit] = "loop"
    /\ \E v \in Units : pc[v] \in {"erase", "erasex", "done"}

\* C12: every iteration of a unit's loop sends one DISCONNECT frame and then
\* calls recv; after the recv it sends one more DISCONNECT frame if the frame
\* received has the kind MESSAGE, and nothing otherwise; no other step sends
\* on a connection.
C12_ProbeAndEcho ==
    [][/\ \A u \in Units :
            io'.unit = u
              => /\ pc[u] = "loop"
                 /\ Len(io'.calls) >= 2
                 /\ io'.calls[1] = "send_DISCONNECT"
                 /\ io'.calls[2] = "recv"
                 /\ SendCount(io'.calls)
                      = (IF io'.rcv = "MESSAGE" THEN 2 ELSE 1)
                 /\ io'.rcv = (IF HasData(u) THEN conn[sockclient[u]].inbox
                               ELSE "NONE")
       /\ io'.unit \notin Units => io'.calls = <<>>]_vars

\* An iteration that received a MESSAGE frame has sent the probe and the echo.
C12_Witness ==
    /\ io.unit \in Units /\ io.rcv = "MESSAGE"
    /\ io.calls = <<"send_DISCONNECT", "recv", "log", "send_DISCONNECT">>

\* C16: an iteration whose recv returned fewer bytes than a frame leaves the
\* unit in its loop and makes no call after the recv: no echo, no log of the
\* body, no close.
C16_ShortFrameIsNoData ==
    [][\A u \in Units :
         (io'.unit = u /\ io'.short)
           => /\ pc'[u] = "loop"
              /\ io'.calls = <<"send_DISCONNECT", "recv">>
              /\ \A c \in Clients : conn'[c].st = conn[c].st]_vars

\* C13: the iteration that ends a unit's loop closes its connection and leaves
\* the registry as it is; the unit's find-and-erase then removes nothing or
\* the first entry equal to its own handle, and nothing else, every other
\* entry staying in place and in order; after that the unit has
\* terminated for good and makes no further call on its connection.
C13_CloseEraseTerminate ==
    [][\A u \in Units :
         /\ (pc[u] = "loop" /\ pc'[u] = "erase")
              => /\ io'.unit = u
                 /\ io'.calls[Len(io'.calls)] = "close"
                 /\ conn'[sockclient[u]].st = "closed"
                 /\ mProcessList' = mProcessList
         /\ (pc[u] = "erase" /\ pc'[u] = "erasex")
              => mProcessList' = mProcessList
         /\ (pc[u] = "erasex" /\ pc'[u] # "erasex")
              => /\ pc'[u] = "done"
                 /\ mProcessList' \in {mProcessList,
                                       RemoveFirst(mProcessList, proc[u])}
         /\ pc[u] = "done"
              => pc'[u] = "done" /\ io'.unit # u]_vars

\* C14: with no call of End and every thread scheduled fairly, once a unit's
\* recv has delivered a DISCONNECT frame (the unit left its loop), eventually
\* its connection is closed, the unit has terminated and its handle is not in
\* the registry.
C14_DisconnectDeregisters ==
    \A u \in 1..MaxUnits :
       (pc[u] = "erase")
         ~> /\ pc[u] = "done"
            /\ conn[sockclient[u]].st = "closed"
            /\ proc[u] \notin Range(mProcessList)

\* C19: with no call of End, a unit that begins its find-and-erase finds its
\* own handle in the registry (the spawner's push_back came first), and the
\* registry never holds the same handle twice.
C19_InsertedOnceBeforeErase ==
    /\ [][\A u \in Units :
            (pc[u] = "erase" /\ pc'[u] = "erasex")
              => proc[u] \in Range(mProcessList)]_vars
    /\ [](\A i, j \in 1..MaxUnits :
            (i < j /\ j <= Len(mProcessList))
              => mProcessList[i] # mProcessList[j])

\* C20: a call of End that follows an End that returned true (no Start having
\* been called in between; here the Start that opened the endpoint has
\* returned true after that End) returns false at once and does nothing: no
\* send, no close, no handle released, the server's state as it was.
C20_SecondEndReturnsFalse ==
    [][(ends' = ends + 1 /\ endRet = "true" /\ startRet = "true")
         => /\ endRet' = "false"
            /\ ctlPc' = "idle"
            /\ endRec' = NoEndRec
            /\ UNCHANGED serverVars]_vars

\* The units that have been started and have not returned from accept.
PendingAcceptors == {u \in Units : pc[u] = "accept"}

\* C15: while the listening endpoint is open and no spawn has failed, at most
\* one unit is waiting in accept (or started and about to), and whenever a
\* unit is inside its send/receive loop exactly one is.
C15_OnePendingAcceptor ==
    (Listening(mSocket) /\ startRet # "threw")
      => /\ Cardinality(PendingAcceptors) <= 1
         /\ (\E u \in Units : pc[u] = "loop")
              => Cardinality(PendingAcceptors) = 1

\* C17: when a thread's createNewProcess fails to start a unit (the thread
\* leaves its spawn without a unit having been started), nothing is added to
\* the registry, no other thread is disturbed, and the caller goes on with its
\* next statement: Connect with its wait for the empty registry (and so
\* returns true), Proc with its send/receive loop.
C17_SpawnFailureIsSilent ==
    [][\A t \in Threads :
         (pc[t] = "spawn" /\ pc'[t] # "spawn" /\ nUnits' = nUnits)
           => /\ mProcessList' = mProcessList
              /\ pc'[t] = (IF t = MainThread THEN "poll" ELSE "loop")
              /\ \A x \in Threads \ {t} : pc'[x] = pc[x]]_vars

(***************************************************************************)
(* Many clients: Start succeeds, no End is called, nothing fails; one more *)
(* client than MAX_CLIENT_NUM connects, each once every unit started so    *)
(* far is either waiting in accept or inside its loop, and no client ever  *)
(* sends anything.                                                         *)
(***************************************************************************)
InitMany == InitWith(MAX_CLIENT_NUM + 2, MAX_CLIENT_NUM + 1, 1)

NextClientConnects ==
    /\ pc[MainThread] = "poll"
    /\ \A u \in Units : pc[u] \in {"none", "accept", "loop"}
    /\ \E c \in Clients : ClientConnect(c)

NextMany ==
    \/ ScenarioStart
    \/ StartBindOk
    \/ StartListenOk
    \/ Spawn
    \/ PushBegin
    \/ PushEnd
    \/ StartPoll
    \/ ProcAcceptOk
    \/ ProcIterateIdle
    \/ NextClientConnects

SpecMany == InitMany /\ [][NextMany]_vars

\* The units inside their send/receive loop on an open accepted connection.
Serving ==
    {u \in Units : /\ pc[u] = "loop"
                   /\ sockclient[u] \in Clients
                   /\ conn[sockclient[u]].st = "accepted"}

\* C18: at no time are more than MAX_CLIENT_NUM client connections being
\* served.
C18_AtMostMaxClients == Cardinality(Serving) <= MAX_CLIENT_NUM

====
